---- MODULE Spec2Model ----
(***************************************************************************)
(* Temporal disclosure engine of LoveCapsule: the annual reveal gate       *)
(* (check-anniversary edge function + useReveal.triggerReveal), the        *)
(* checkpoint selector (get_checkpoint_entry), the row-level-security      *)
(* policies on entries, and the tables they read and write; the client's   *)
(* date functions (isAnniversaryReady, getNextCheckpointDate) and the       *)
(* server's check_checkpoint_today, evaluated over a two-year calendar.     *)
(*                                                                         *)
(* One couple with two partners.  Every remote call of the client hooks is *)
(* a separate request, every statement of a plpgsql function runs under    *)
(* READ COMMITTED with its own snapshot, so those are the atomic steps.    *)
(***************************************************************************)
EXTENDS Integers, Sequences, FiniteSets, Bags, TLC

\* ------------------------------------------------------------------ bounds
NumDates == 3      \* length of the calendar the clock walks through
MaxEntries == 2    \* entry ids that can ever be created
NumSessions == 2   \* client sessions (devices) issuing calls concurrently

\* --------------------------------------------------------------- constants
NULL == "NULL"                           \* SQL NULL of a text / uuid column
NoDate == [y |-> 0, m |-> 0, d |-> 0]     \* SQL NULL of a date column
NoYear == 0                              \* SQL NULL of last_reveal_year
NoEntry == 0                             \* a NULL entry (no row selected)
NoStats == [partner_1_entries |-> -1, partner_2_entries |-> -1]  \* no snapshot row
partner_1_id == "u1"
partner_2_id == "u2"
Partners == {partner_1_id, partner_2_id}
outsider_id == "u3"                      \* a signed-in user who is not in the couple
ConfigIds == {"c1"}
EntryIds == 1..MaxEntries
Sessions == 1..NumSessions
\* the partners' sessions and one more, the outsider's
Callers == 1..(NumSessions + 1)
\* The user each session is signed in as (auth.uid()): two devices of
\* partner 1 for every device of partner 2; the last session is the outsider.
UserOf(s) == IF s > NumSessions THEN outsider_id
             ELSE IF s % 3 = 0 THEN partner_2_id ELSE partner_1_id

\* The calendar: a day before the anniversary of 2024, the anniversary of
\* 2024, the anniversary of 2025, then the days after it.
DateAt(i) == IF i = 1 THEN [y |-> 2024, m |-> 6, d |-> 10]
             ELSE IF i = 2 THEN [y |-> 2024, m |-> 6, d |-> 15]
             ELSE [y |-> 2025, m |-> 6, d |-> 12 + i]
AnniversaryInput == [y |-> 2020, m |-> 6, d |-> 15]

\* Entry ids come from disjoint per-author pools (ids are fresh uuids): the
\* first two ids are partner 2's, the others are partner 1's.
OwnerOfId(e) == IF e <= 2 THEN "u2" ELSE "u1"

Absent == [state |-> "absent"]
Deleted == [state |-> "deleted"]

VARIABLES
  clock,               \* index of today's date in the calendar
  couple,              \* the couples row: anniversary_date, is_revealed, last_reveal_year
  entries,             \* the entries table, by entry id
  checkpoint_configs,  \* the checkpoint_configs table: id -> absent / active / deleted
  checkpoint_reveals,  \* the checkpoint_reveals table, a bag of rows
  reveal_history,      \* the reveal_history table, a bag of rows
  call,                \* per session: local variables of the call in flight
  response,            \* the response returned by the step just taken, if any
  probe                \* a client-side date computation: its clock, inputs and result

vars == <<clock, couple, entries, checkpoint_configs, checkpoint_reveals,
          reveal_history, call, response, probe>>

today == DateAt(clock)
Years == {DateAt(i).y : i \in 1..NumDates}

\* ------------------------------------------------------------ date helpers
DateLE(a, b) ==
  \/ a.y < b.y
  \/ a.y = b.y /\ a.m < b.m
  \/ a.y = b.y /\ a.m = b.m /\ a.d <= b.d

\* ---------------------------------------------- JavaScript dates (date-fns)
\* A Date is a calendar day and the time within it: t = 0 is local midnight
\* (what parseISO of a date string and new Date(y, m, d) give), t = 1 is any
\* later moment of the day.
CalendarYears == {2024, 2025}
IsLeapYear(y) == (y % 4 = 0 /\ y % 100 # 0) \/ y % 400 = 0
DaysInMonth(y, m) ==
  IF m = 2 THEN (IF IsLeapYear(y) THEN 29 ELSE 28)
  ELSE IF m \in {4, 6, 9, 11} THEN 30 ELSE 31
\* every day of the calendar years, as the DATE values of the database
Calendar ==
  {[y |-> y, m |-> m, d |-> d] : y \in CalendarYears, m \in 1..12, d \in 1..31}
    \ {x \in [y : CalendarYears, m : 1..12, d : 29..31] : x.d > DaysInMonth(x.y, x.m)}
\* new Date(): a day of the calendar, at midnight or later in the day
Now == {[y |-> c.y, m |-> c.m, d |-> c.d, t |-> t] : c \in Calendar, t \in {0, 1}}

parseISO(date) == [y |-> date.y, m |-> date.m, d |-> date.d, t |-> 0]
getYear(date) == date.y
isSameDay(a, b) == a.y = b.y /\ a.m = b.m /\ a.d = b.d
isBefore(a, b) ==
  \/ a.y < b.y
  \/ a.y = b.y /\ a.m < b.m
  \/ a.y = b.y /\ a.m = b.m /\ a.d < b.d
  \/ a.y = b.y /\ a.m = b.m /\ a.d = b.d /\ a.t < b.t
isAfter(a, b) == isBefore(b, a)
\* variant: 29 February is clamped to 28 February of a common year
setYear_Clamped(date, year) ==
  IF date.m = 2 /\ date.d = 29 /\ ~IsLeapYear(year)
  THEN [date EXCEPT !.y = year, !.d = 28]
  ELSE [date EXCEPT !.y = year]
\* setYear is Date.setFullYear: 29 February lands on 1 March of a common year
setYear(date, year) ==
  IF date.m = 2 /\ date.d = 29 /\ ~IsLeapYear(year)
  THEN [date EXCEPT !.y = year, !.m = 3, !.d = 1]
  ELSE [date EXCEPT !.y = year]
\* new Date(year, monthIndex, day): monthIndex counts from 0 and may run past
\* 11, a day past the end of the month runs into the next month
NewDate(year, monthIndex, day) ==
  LET y1 == year + (monthIndex \div 12)
      m1 == (monthIndex % 12) + 1
  IN IF day <= DaysInMonth(y1, m1)
     THEN [y |-> y1, m |-> m1, d |-> day, t |-> 0]
     ELSE [y |-> IF m1 = 12 THEN y1 + 1 ELSE y1, m |-> IF m1 = 12 THEN 1 ELSE m1 + 1,
           d |-> day - DaysInMonth(y1, m1), t |-> 0]

\* ------------------------------------------------------------ table helpers
Exists(e) == entries[e].state = "row"
\* variant: is_draft is not looked at
Published_IncludesDrafts(e) == Exists(e)
Published(e) == Exists(e) /\ ~entries[e].is_draft
Rows == BagToSet(checkpoint_reveals)
\* number of checkpoint_reveals rows with this (entry_id, revealed_to_user_id)
RowCount(e, u) ==
  BagCardinality([r \in {x \in Rows : x.entry_id = e /\ x.revealed_to_user_id = u}
                    |-> checkpoint_reveals[r]])
\* SELECT entry_id FROM checkpoint_reveals WHERE revealed_to_user_id = u
\* variant: only the rows of today count as revealed
RevealedTo_Today(u) ==
  {r.entry_id : r \in {x \in Rows : x.revealed_to_user_id = u /\ x.checkpoint_date = today}}
RevealedTo(u) == {r.entry_id : r \in {x \in Rows : x.revealed_to_user_id = u}}
\* the reveal_history rows of table h WHERE reveal_year = y, and their number
SnapshotRows(h, y) == {r \in BagToSet(h) : r.reveal_year = y}
SnapshotCount(h, y) == BagCardinality([r \in SnapshotRows(h, y) |-> h[r]])
HasSnapshot(y) == SnapshotRows(reveal_history, y) # {}

Idle == [pc |-> "idle", viewer |-> NULL, config |-> NULL, v_today |-> NoDate,
         pick |-> NoEntry, currentYear |-> NoYear, p_year |-> NoYear, stats |-> NoStats]
NoResult == [op |-> "none", session |-> 0, viewer |-> NULL, date |-> NoDate,
             entry |-> NoEntry, already_revealed |-> FALSE, no_entries |-> FALSE,
             error |-> NULL, year |-> NoYear, stats |-> NoStats, count |-> -1]


\* the tables, calls and response right after the couple is created
InitTables ==
  /\ clock = 1
  /\ entries = [e \in EntryIds |-> Absent]
  /\ checkpoint_configs = [c \in ConfigIds |-> "absent"]
  /\ checkpoint_reveals = EmptyBag
  /\ reveal_history = EmptyBag
  /\ call = [s \in Callers |-> Idle]
  /\ response = NoResult

NewCouple == [anniversary_date |-> NoDate, is_revealed |-> FALSE, last_reveal_year |-> NoYear]

Init == InitTables /\ couple = NewCouple /\ probe = [fn |-> "none"]

\* ------------------------------------------------------------------- clock
Tick ==
  /\ clock < NumDates
  /\ clock' = clock + 1
  /\ response' = NoResult
  /\ UNCHANGED <<probe, couple, entries, checkpoint_configs, checkpoint_reveals, reveal_history, call>>

\* useCouple.setAnniversaryDate: the settings screen stores the anniversary.
setAnniversaryDate(d) ==
  /\ couple.anniversary_date # d
  /\ couple' = [couple EXCEPT !.anniversary_date = d]
  /\ response' = NoResult
  /\ UNCHANGED <<probe, clock, entries, checkpoint_configs, checkpoint_reveals, reveal_history, call>>

\* ----------------------------------------------------------------- entries
\* What the author fills into the entry form, by entry: every other entry is
\* saved with all optional fields (mood, location) set, the others with at
\* least one left NULL; the date picker is set to the first or the last date.
FormComplete(e) == e % 2 = 0
FormEntryDate(e) == IF e % 2 = 0 THEN DateAt(NumDates) ELSE DateAt(1)

\* useEntries.createEntry: insert with author_id = user.id; is_draft, mood and
\* the location fields come from the form (complete = mood and location set).
createEntry(u, e, isDraft) ==
  /\ entries[e] = Absent
  /\ OwnerOfId(e) = u
  /\ entries' = [entries EXCEPT ![e] =
        [state |-> "row", author_id |-> u, is_draft |-> isDraft,
         entry_date |-> FormEntryDate(e), complete |-> FormComplete(e)]]
  /\ response' = NoResult
  /\ UNCHANGED <<probe, clock, couple, checkpoint_configs, checkpoint_reveals, reveal_history, call>>

\* handlePublish: updateEntry(id, {is_draft: false}) by the author.
handlePublish(u, e) ==
  /\ Exists(e) /\ entries[e].author_id = u /\ entries[e].is_draft
  /\ entries' = [entries EXCEPT ![e].is_draft = FALSE]
  /\ response' = NoResult
  /\ UNCHANGED <<probe, clock, couple, checkpoint_configs, checkpoint_reveals, reveal_history, call>>

\* useEntries.deleteEntry by the author; checkpoint_reveals.entry_id is
\* ON DELETE CASCADE, so the entry's disclosure rows go with it.
deleteEntry(u, e) ==
  /\ Exists(e) /\ entries[e].author_id = u
  /\ entries' = [entries EXCEPT ![e] = Deleted]
  /\ checkpoint_reveals' =
       [r \in {x \in Rows : x.entry_id # e} |-> checkpoint_reveals[r]]
  /\ response' = NoResult
  /\ UNCHANGED <<probe, clock, couple, checkpoint_configs, reveal_history, call>>

\* --------------------------------------------------------- checkpoint configs
\* useCheckpoint.createConfig: insert a checkpoint_configs row (fresh id).
createConfig(c) ==
  /\ checkpoint_configs[c] = "absent"
  /\ checkpoint_configs' = [checkpoint_configs EXCEPT ![c] = "active"]
  /\ response' = NoResult
  /\ UNCHANGED <<probe, clock, couple, entries, checkpoint_reveals, reveal_history, call>>

\* checkpoint_reveals.checkpoint_config_id ... ON DELETE SET NULL
SetConfigNull(r, c) ==
  IF r.checkpoint_config_id = c THEN [r EXCEPT !.checkpoint_config_id = NULL] ELSE r

\* variant: checkpoint_config_id declared ON DELETE CASCADE
deleteConfig_Cascade(c) ==
  /\ checkpoint_configs[c] = "active"
  /\ checkpoint_configs' = [checkpoint_configs EXCEPT ![c] = "deleted"]
  /\ checkpoint_reveals' =
       [r \in {x \in Rows : x.checkpoint_config_id # c} |-> checkpoint_reveals[r]]
  /\ response' = NoResult
  /\ UNCHANGED <<probe, clock, couple, entries, reveal_history, call>>

\* useCheckpoint.deleteConfig: delete the row; the rows that reference it keep
\* their entry and viewer and get checkpoint_config_id = NULL.
deleteConfig(c) ==
  /\ checkpoint_configs[c] = "active"
  /\ checkpoint_configs' = [checkpoint_configs EXCEPT ![c] = "deleted"]
  /\ checkpoint_reveals' =
       [r2 \in {SetConfigNull(r, c) : r \in Rows} |->
          BagCardinality([r \in {x \in Rows : SetConfigNull(x, c) = r2}
                            |-> checkpoint_reveals[r]])]
  /\ response' = NoResult
  /\ UNCHANGED <<probe, clock, couple, entries, reveal_history, call>>

\* -------------------------------------------------------- get_checkpoint_entry
PartnerOf(u) == IF partner_1_id = u THEN partner_2_id ELSE partner_1_id

\* variant: the partner lookup without the membership condition of its WHERE
v_partner_id_AnyUser(u) == PartnerOf(u)

\* SELECT CASE ... INTO v_partner_id FROM couples WHERE id = p_couple_id AND
\* (partner_1_id = v_user_id OR partner_2_id = v_user_id): NULL when no row.
v_partner_id(u) == IF u \in Partners THEN PartnerOf(u) ELSE NULL

\* `IF v_existing_reveal IS NOT NULL`: for a record value IS NOT NULL is true
\* only when every field is non-null (PostgreSQL, row-wise NULL comparison).
\* The record holds cr.* and the joined entry's columns; the nullable ones are
\* checkpoint_config_id, mood, location_name, location_lat, location_lng.
RecordIsNotNull(r) ==
  /\ r.checkpoint_config_id # NULL
  /\ entries[r.entry_id].complete

\* rows WHERE revealed_to_user_id = v_user_id AND checkpoint_date = v_today
RevealsOn(u, d) == {r \in Rows : r.revealed_to_user_id = u /\ r.checkpoint_date = d}

\* variant: the selection without the NOT IN (revealed to viewer) filter
Unrevealed_NoFilter(u) ==
  {e \in EntryIds : Published(e) /\ entries[e].author_id = PartnerOf(u)}

\* partner entries WHERE is_draft = false AND id NOT IN (revealed to viewer)
Unrevealed(u) ==
  {e \in EntryIds : /\ Published(e)
                    /\ entries[e].author_id = PartnerOf(u)
                    /\ e \notin RevealedTo(u)}

\* variant: the table without the UNIQUE constraint
unique_entry_per_user_Dropped(e, u) == TRUE

\* CONSTRAINT unique_entry_per_user UNIQUE (entry_id, revealed_to_user_id)
unique_entry_per_user(e, u) == RowCount(e, u) = 0

\* foreign keys of a new checkpoint_reveals row
ForeignKeysHold(e, c) ==
  /\ Exists(e)
  /\ IF c = NULL THEN TRUE ELSE checkpoint_configs[c] = "active"

CheckpointResult(s, d, e, already, none, err) ==
  [op |-> "checkpoint", session |-> s, viewer |-> UserOf(s), date |-> d, entry |-> e,
   already_revealed |-> already, no_entries |-> none, error |-> err,
   year |-> NoYear, stats |-> NoStats, count |-> -1]

\* Statement 1-2: partner lookup (a caller outside the couple is turned away)
\* and the look-up of today's reveal.  SELECT INTO keeps the first row of an
\* unordered result.
GetCheckpointEntry_Existing(s, c) ==
  LET u == UserOf(s) IN
  /\ call[s].pc = "idle"
  /\ IF c = NULL THEN TRUE ELSE checkpoint_configs[c] # "absent"
  /\ IF v_partner_id(u) = NULL
     THEN /\ call' = call
          /\ response' = CheckpointResult(s, today, NoEntry, FALSE, TRUE,
                                          "Invalid couple or not a member")
     ELSE \/ \E r \in RevealsOn(u, today) :
               /\ RecordIsNotNull(r)
               /\ call' = call
               /\ response' = CheckpointResult(s, today, r.entry_id, TRUE, FALSE, NULL)
          \/ /\ \/ RevealsOn(u, today) = {}
                \/ \E r \in RevealsOn(u, today) : ~RecordIsNotNull(r)
             /\ call' = [call EXCEPT ![s] =
                  [Idle EXCEPT !.pc = "select", !.viewer = u, !.config = c, !.v_today = today]]
             /\ response' = NoResult
  /\ UNCHANGED <<probe, clock, couple, entries, checkpoint_configs, checkpoint_reveals,
                 reveal_history>>

\* Statement 3: pick a random unrevealed partner entry (ORDER BY random() LIMIT 1).
GetCheckpointEntry_Select(s) ==
  /\ call[s].pc = "select"
  /\ LET u == call[s].viewer IN
     \/ /\ Unrevealed(u) = {}
        /\ call' = [call EXCEPT ![s] = Idle]
        /\ response' = CheckpointResult(s, call[s].v_today, NoEntry, FALSE, TRUE, NULL)
     \/ \E e \in Unrevealed(u) :
          /\ call' = [call EXCEPT ![s].pc = "insert", ![s].pick = e]
          /\ response' = NoResult
  /\ UNCHANGED <<probe, clock, couple, entries, checkpoint_configs, checkpoint_reveals,
                 reveal_history>>

\* Statement 4: INSERT INTO checkpoint_reveals, then return the new entry; a
\* constraint violation aborts the function with an error.
GetCheckpointEntry_Insert(s) ==
  /\ call[s].pc = "insert"
  /\ LET u == call[s].viewer
         e == call[s].pick
         row == [entry_id |-> e, revealed_to_user_id |-> u,
                 checkpoint_date |-> call[s].v_today,
                 checkpoint_config_id |-> call[s].config]
     IN IF unique_entry_per_user(e, u) /\ ForeignKeysHold(e, call[s].config)
        THEN /\ checkpoint_reveals' = checkpoint_reveals (+) SetToBag({row})
             /\ response' = CheckpointResult(s, call[s].v_today, e, FALSE, FALSE, NULL)
        ELSE /\ checkpoint_reveals' = checkpoint_reveals
             /\ response' = CheckpointResult(s, call[s].v_today, NoEntry, FALSE, FALSE,
                               IF unique_entry_per_user(e, u)
                               THEN "foreign key violation"
                               ELSE "unique_entry_per_user")
  /\ call' = [call EXCEPT ![s] = Idle]
  /\ UNCHANGED <<probe, clock, couple, entries, checkpoint_configs, reveal_history>>

\* -------------------------------------------------- get_unrevealed_entry_count
\* variant: the count without the is_draft = false condition
get_unrevealed_entry_count_Drafts(u) ==
  IF v_partner_id(u) = NULL THEN 0
  ELSE Cardinality({e \in EntryIds : /\ Exists(e)
                                      /\ entries[e].author_id = v_partner_id(u)
                                      /\ e \notin RevealedTo(u)})

\* RETURN 0 for a caller outside the couple; otherwise COUNT(*) of the
\* partner's entries WHERE is_draft = false AND id NOT IN (rows of the caller)
get_unrevealed_entry_count(u) ==
  IF v_partner_id(u) = NULL THEN 0
  ELSE Cardinality({e \in EntryIds : /\ Exists(e)
                                      /\ entries[e].author_id = v_partner_id(u)
                                      /\ entries[e].is_draft = FALSE
                                      /\ e \notin RevealedTo(u)})

\* useCheckpoint.getUnrevealedCount: rpc get_unrevealed_entry_count
getUnrevealedCount(s) ==
  /\ response' = [NoResult EXCEPT !.op = "count", !.session = s, !.viewer = UserOf(s),
                                  !.count = get_unrevealed_entry_count(UserOf(s))]
  /\ response' # response
  /\ UNCHANGED <<probe, clock, couple, entries, checkpoint_configs, checkpoint_reveals,
                 reveal_history, call>>

\* ------------------------------------------------------------ get_reveal_stats
YearStart(y) == [y |-> y, m |-> 1, d |-> 1]
YearEnd(y) == [y |-> y, m |-> 12, d |-> 31]

\* published entries of one author with entry_date in [v_year_start, v_year_end]
EntriesOf(u, p_year) ==
  {e \in EntryIds : /\ Published(e)
                    /\ entries[e].author_id = u
                    /\ DateLE(YearStart(p_year), entries[e].entry_date)
                    /\ DateLE(entries[e].entry_date, YearEnd(p_year))}

get_reveal_stats(p_year) ==
  [partner_1_entries |-> Cardinality(EntriesOf(partner_1_id, p_year)),
   partner_2_entries |-> Cardinality(EntriesOf(partner_2_id, p_year))]

\* ------------------------------------------------------------- check-anniversary
\* variant: the stored anniversary date compared as it is, year included
AnniversaryThisYear_Stored(anniversary, d) == anniversary

\* anniversaryThisYear = new Date(currentYear, anniversary.getMonth(), anniversary.getDate())
AnniversaryThisYear(anniversary, d) ==
  LET x == NewDate(d.y, anniversary.m - 1, anniversary.d) IN [y |-> x.y, m |-> x.m, d |-> x.d]

\* variant: last_reveal_year <= currentYear in place of <
isReady_SameYear(c, d) ==
  /\ DateLE(AnniversaryThisYear(c.anniversary_date, d), d)
  /\ c.last_reveal_year = NoYear \/ c.last_reveal_year <= d.y

\* isReady = today >= anniversaryThisYear &&
\*           (last_reveal_year === null || last_reveal_year < currentYear)
isReady(c, d) ==
  /\ DateLE(AnniversaryThisYear(c.anniversary_date, d), d)
  /\ c.last_reveal_year = NoYear \/ c.last_reveal_year < d.y

\* ------------------------------------------------ the client's reveal gate
\* variant: today has to be after the anniversary, the day itself does not count
isAnniversaryReady_AfterOnly(anniversaryDate, lastRevealYear, now) ==
  /\ isAfter(now, setYear(parseISO(anniversaryDate), getYear(now)))
  /\ lastRevealYear = NoYear \/ lastRevealYear < getYear(now)

\* date-utils.isAnniversaryReady at the moment `now`
isAnniversaryReady(anniversaryDate, lastRevealYear, now) ==
  LET anniversaryThisYear == setYear(parseISO(anniversaryDate), getYear(now))
      currentYear == getYear(now)
  IN /\ isAfter(now, anniversaryThisYear) \/ isSameDay(now, anniversaryThisYear)
     /\ lastRevealYear = NoYear \/ lastRevealYear < currentYear

\* useCouple: isRevealReady = couple?.anniversary_date ? isAnniversaryReady(...) : false
isRevealReady ==
  /\ probe.fn = "isRevealReady" /\ ~probe.done
  /\ probe' = [probe EXCEPT !.done = TRUE, !.out =
        IF couple.anniversary_date # NoDate
        THEN isAnniversaryReady(couple.anniversary_date, couple.last_reveal_year, probe.now)
        ELSE FALSE]
  /\ UNCHANGED <<clock, couple, entries, checkpoint_configs, checkpoint_reveals,
                 reveal_history, call, response>>

\* variant: an update that clears last_reveal_year of a couple already revealed
RevealUpdate_Clears(c, currentYear) ==
  [c EXCEPT !.is_revealed = TRUE,
            !.last_reveal_year = IF c.is_revealed THEN NoYear ELSE currentYear]

\* .update({ is_revealed: true, last_reveal_year: currentYear })
RevealUpdate(c, currentYear) ==
  [c EXCEPT !.is_revealed = TRUE, !.last_reveal_year = currentYear]

TriggerResult(s, err) ==
  [NoResult EXCEPT !.op = "trigger", !.session = s, !.viewer = UserOf(s), !.error = err]

\* triggerReveal, first await: supabase.auth.refreshSession() fails.
TriggerReveal_RefreshFails(s) ==
  /\ call[s].pc = "idle"
  /\ response' = TriggerResult(s, "Session expired")
  /\ UNCHANGED <<probe, clock, couple, entries, checkpoint_configs, checkpoint_reveals,
                 reveal_history, call>>

\* check-anniversary: read the couples row and evaluate the gate.
CheckAnniversary_Gate(s) ==
  /\ call[s].pc = "idle"
  /\ IF couple.anniversary_date = NoDate
     THEN /\ response' = TriggerResult(s, "No anniversary date set")
          /\ call' = call
     ELSE IF ~isReady(couple, today)
     THEN /\ response' = TriggerResult(s, "Anniversary has not been reached yet")
          /\ call' = call
     ELSE /\ response' = NoResult
          /\ call' = [call EXCEPT ![s] = [Idle EXCEPT !.pc = "update", !.currentYear = today.y]]
  /\ UNCHANGED <<probe, clock, couple, entries, checkpoint_configs, checkpoint_reveals,
                 reveal_history>>

\* check-anniversary: flip the reveal flag (a separate request to the database).
CheckAnniversary_Update(s) ==
  /\ call[s].pc = "update"
  /\ couple' = RevealUpdate(couple, call[s].currentYear)
  /\ call' = [call EXCEPT ![s].pc = "stats"]
  /\ response' = NoResult
  /\ UNCHANGED <<probe, clock, entries, checkpoint_configs, checkpoint_reveals, reveal_history>>

\* check-anniversary: updateError -> 500 'Failed to update reveal status'.
CheckAnniversary_UpdateFails(s) ==
  /\ call[s].pc = "update"
  /\ call' = [call EXCEPT ![s] = Idle]
  /\ response' = TriggerResult(s, "Failed to update reveal status")
  /\ UNCHANGED <<probe, clock, couple, entries, checkpoint_configs, checkpoint_reveals,
                 reveal_history>>

\* triggerReveal: currentYear = new Date().getFullYear(); rpc get_reveal_stats.
TriggerReveal_Stats(s) ==
  /\ call[s].pc = "stats"
  /\ call' = [call EXCEPT ![s].pc = "save", ![s].p_year = today.y,
                          ![s].stats = get_reveal_stats(today.y)]
  /\ response' = NoResult
  /\ UNCHANGED <<probe, clock, couple, entries, checkpoint_configs, checkpoint_reveals, reveal_history>>

\* triggerReveal: statsError is thrown, the call ends in the catch block.
TriggerReveal_StatsFails(s) ==
  /\ call[s].pc = "stats"
  /\ call' = [call EXCEPT ![s] = Idle]
  /\ response' = TriggerResult(s, "stats error")
  /\ UNCHANGED <<probe, clock, couple, entries, checkpoint_configs, checkpoint_reveals,
                 reveal_history>>

\* variant: a plain INSERT into a table without unique_couple_year
save_reveal_snapshot_PlainInsert(h, p_year, p_stats) ==
  h (+) SetToBag({[reveal_year |-> p_year, stats_snapshot |-> p_stats,
                   revealed_at |-> today]})

\* save_reveal_snapshot: INSERT ... ON CONFLICT (couple_id, reveal_year)
\* DO UPDATE SET stats_snapshot = p_stats, revealed_at = now()
save_reveal_snapshot(h, p_year, p_stats) ==
  [r \in {x \in BagToSet(h) : x.reveal_year # p_year} |-> h[r]]
    (+) SetToBag({[reveal_year |-> p_year, stats_snapshot |-> p_stats,
                   revealed_at |-> today]})

\* triggerReveal: rpc save_reveal_snapshot, then return true.
TriggerReveal_Save(s) ==
  /\ call[s].pc = "save"
  /\ reveal_history' = save_reveal_snapshot(reveal_history, call[s].p_year, call[s].stats)
  /\ call' = [call EXCEPT ![s] = Idle]
  /\ response' = TriggerResult(s, NULL)
  /\ UNCHANGED <<probe, clock, couple, entries, checkpoint_configs, checkpoint_reveals>>

\* triggerReveal: the error of the save_reveal_snapshot rpc is not inspected,
\* the call still returns true.
TriggerReveal_SaveFails(s) ==
  /\ call[s].pc = "save"
  /\ call' = [call EXCEPT ![s] = Idle]
  /\ response' = TriggerResult(s, NULL)
  /\ UNCHANGED <<probe, clock, couple, entries, checkpoint_configs, checkpoint_reveals,
                 reveal_history>>

\* useReveal.loadStats from handleViewYear (a year of the year picker, which
\* lists the reveal_history rows) or for the current year once revealed: rpc
\* get_reveal_stats, the result goes to the screen.
loadStats(s, year) ==
  /\ call[s].pc = "idle"
  /\ HasSnapshot(year) \/ (couple.is_revealed /\ year = today.y)
  /\ response' = [NoResult EXCEPT !.op = "view", !.session = s, !.viewer = UserOf(s),
                                  !.year = year, !.stats = get_reveal_stats(year)]
  /\ UNCHANGED <<probe, clock, couple, entries, checkpoint_configs, checkpoint_reveals,
                 reveal_history, call>>

\* ------------------------------------------------- developer tools (reveal tab)
\* renderDevTools shows the buttons only when the build sets EXPO_PUBLIC_DEV_TOOLS.
DEV_TOOLS_ENABLED == TRUE

\* handleDevForceReveal: update({ is_revealed: true, last_reveal_year: currentYear })
\* without a look at the gate, then refreshCouple and loadStats (reads only).
handleDevForceReveal ==
  /\ DEV_TOOLS_ENABLED
  /\ couple' = RevealUpdate(couple, today.y)
  /\ couple' # couple
  /\ response' = NoResult
  /\ UNCHANGED <<probe, clock, entries, checkpoint_configs, checkpoint_reveals, reveal_history, call>>

\* variant: a reset that clears last_reveal_year and leaves is_revealed alone
DevReset_KeepsFlag(c) == [c EXCEPT !.last_reveal_year = NoYear]

\* .update({ is_revealed: false, last_reveal_year: null })
DevReset(c) == [c EXCEPT !.is_revealed = FALSE, !.last_reveal_year = NoYear]

\* handleDevResetReveal: the couple looks as if it was never opened.
handleDevResetReveal ==
  /\ DEV_TOOLS_ENABLED
  /\ couple' = DevReset(couple)
  /\ couple' # couple
  /\ response' = NoResult
  /\ UNCHANGED <<probe, clock, entries, checkpoint_configs, checkpoint_reveals, reveal_history, call>>

\* handleDevSetAnniversaryToday: anniversary_date = today's date.
handleDevSetAnniversaryToday ==
  /\ DEV_TOOLS_ENABLED
  /\ setAnniversaryDate(today)

\* ------------------------------------------------------------ specifications
EntryStep ==
  \/ \E u \in Partners, e \in EntryIds, d \in BOOLEAN : createEntry(u, e, d)
  \/ \E u \in Partners, e \in EntryIds : handlePublish(u, e)
  \/ \E u \in Partners, e \in EntryIds : deleteEntry(u, e)

ConfigStep ==
  \/ \E c \in ConfigIds : createConfig(c)
  \/ \E c \in ConfigIds : deleteConfig(c)

BeginCheckpoint(s) ==
  \E c \in ConfigIds \cup {NULL} : GetCheckpointEntry_Existing(s, c)

ContinueCheckpoint(s) ==
  \/ GetCheckpointEntry_Select(s)
  \/ GetCheckpointEntry_Insert(s)

BeginTrigger(s) ==
  \/ TriggerReveal_RefreshFails(s)
  \/ CheckAnniversary_Gate(s)

ContinueTrigger(s) ==
  \/ CheckAnniversary_Update(s)
  \/ CheckAnniversary_UpdateFails(s)
  \/ TriggerReveal_Stats(s)
  \/ TriggerReveal_StatsFails(s)
  \/ TriggerReveal_Save(s)
  \/ TriggerReveal_SaveFails(s)

\* A call completes within one calendar date: the date changes only while no
\* call is in flight.
NoCallInFlight == \A s \in Sessions : call[s].pc = "idle"

\* Concurrent get_checkpoint_entry calls against the entries and configs.
NextCheckpoint ==
  \/ NoCallInFlight /\ Tick
  \/ EntryStep
  \/ ConfigStep
  \/ \E s \in Sessions : BeginCheckpoint(s)
  \/ \E s \in Sessions : ContinueCheckpoint(s)

SpecCheckpoint == Init /\ [][NextCheckpoint]_vars

\* get_checkpoint_entry called by the partners and by an outsider, on one date.
NextMembership ==
  \/ EntryStep
  \/ ConfigStep
  \/ \E s \in Callers : BeginCheckpoint(s)
  \/ \E s \in Callers : ContinueCheckpoint(s)

SpecMembership == Init /\ [][NextMembership]_vars

\* Concurrent triggerReveal calls.
NextReveal ==
  \/ NoCallInFlight /\ Tick
  \/ setAnniversaryDate(AnniversaryInput)
  \/ EntryStep
  \/ \E s \in Sessions : BeginTrigger(s)
  \/ \E s \in Sessions : ContinueTrigger(s)
  \/ \E s \in Sessions, y \in Years : loadStats(s, y)

SpecReveal == Init /\ [][NextReveal]_vars

\* A development build: concurrent triggerReveal calls and the developer tools.
NextDev ==
  \/ NoCallInFlight /\ Tick
  \/ setAnniversaryDate(AnniversaryInput)
  \/ handleDevSetAnniversaryToday
  \/ handleDevForceReveal
  \/ handleDevResetReveal
  \/ \E s \in Sessions : BeginTrigger(s)
  \/ \E s \in Sessions : ContinueTrigger(s)

SpecDev == Init /\ [][NextDev]_vars

\* The client's gate on every day of the calendar, for a couples row holding
\* one of the anniversaries and a reveal year that is not in the future.
Anniversaries ==
  {NoDate, [y |-> 2020, m |-> 6, d |-> 15], [y |-> 2020, m |-> 2, d |-> 29],
   [y |-> 2019, m |-> 12, d |-> 31], [y |-> 2021, m |-> 1, d |-> 1]}
RevealYears == {NoYear, 2023, 2024, 2025}
InitGate ==
  /\ InitTables
  /\ probe \in {[fn |-> "isRevealReady", now |-> n, done |-> FALSE, out |-> FALSE] : n \in Now}
  /\ couple \in {[anniversary_date |-> a, is_revealed |-> (l # NoYear), last_reveal_year |-> l] :
                   a \in Anniversaries, l \in {x \in RevealYears : x <= probe.now.y}}

NextGate == isRevealReady

SpecGate == InitGate /\ [][NextGate]_vars

\* check-anniversary's gate for the same couples row at the same moment: the
\* request is accepted unless it is answered 400.
checkAnniversary ==
  /\ probe.fn = "isRevealReady" /\ "accepted" \in DOMAIN probe /\ ~probe.served
  /\ probe' = [probe EXCEPT !.served = TRUE, !.accepted =
        /\ couple.anniversary_date # NoDate
        /\ isReady(couple, [y |-> probe.now.y, m |-> probe.now.m, d |-> probe.now.d])]
  /\ UNCHANGED <<clock, couple, entries, checkpoint_configs, checkpoint_reveals,
                 reveal_history, call, response>>

\* Both gates on every day of the calendar, for the same couples row.
InitBothGates ==
  /\ InitTables
  /\ probe \in {[fn |-> "isRevealReady", now |-> n, done |-> FALSE, out |-> FALSE,
                  served |-> FALSE, accepted |-> FALSE] : n \in Now}
  /\ couple \in {[anniversary_date |-> a, is_revealed |-> (l # NoYear), last_reveal_year |-> l] :
                   a \in Anniversaries, l \in {x \in RevealYears : x <= probe.now.y}}

NextBothGates == isRevealReady \/ checkAnniversary

SpecBothGates == InitBothGates /\ [][NextBothGates]_vars

\* ------------------------------------------------------ check_checkpoint_today
\* A checkpoint_configs row with its recurrence rule.  NULL columns:
\* day_of_month NoDay, months <<>> (v_month = ANY(NULL) is not true either,
\* and the client skips a null array like an empty one), specific_date NoDate.
NoDay == 0
ConfigRow(id, frequency, day, months, date, active) ==
  [id |-> id, frequency |-> frequency, day_of_month |-> day, months |-> months,
   specific_date |-> date, is_active |-> active]

\* the WHERE clause of check_checkpoint_today for one row
MatchesToday(c, v_today) ==
  LET AnyOf(v, array) == \E i \in DOMAIN array : array[i] = v
  IN
  LET v_day_of_month == v_today.d
      v_month == v_today.m
  IN /\ c.is_active = TRUE
     /\ \/ c.frequency = "monthly" /\ c.day_of_month = v_day_of_month
        \/ c.frequency = "quarterly" /\ c.day_of_month = v_day_of_month /\ AnyOf(v_month, c.months)
        \/ c.frequency = "semi_annual" /\ c.day_of_month = v_day_of_month /\ AnyOf(v_month, c.months)
        \/ c.frequency = "specific_date" /\ c.specific_date = v_today

check_checkpoint_today(configs, v_today) ==
  [is_checkpoint_day |-> \E c \in configs : MatchesToday(c, v_today),
   checkpoints |-> {c.id : c \in {x \in configs : MatchesToday(x, v_today)}}]

\* useCheckpoint.checkToday: rpc check_checkpoint_today, the answer becomes
\* isCheckpointDay and todaysCheckpoints.
checkToday ==
  /\ probe.fn = "checkToday" /\ ~probe.done
  /\ probe' = [probe EXCEPT !.done = TRUE,
                            !.out = check_checkpoint_today(probe.configs, probe.today)]
  /\ UNCHANGED <<clock, couple, entries, checkpoint_configs, checkpoint_reveals,
                 reveal_history, call, response>>

InitCheckpointDay ==
  LET ConfigTables ==
        LET ConfigsWithId(id) ==
              LET RuleSamples ==
                    {<<"monthly", 15, <<>>, NoDate>>, <<"monthly", 28, <<>>, NoDate>>,
                     <<"quarterly", 15, <<3, 6, 9, 12>>, NoDate>>, <<"semi_annual", 15, <<6, 12>>, NoDate>>,
                     <<"specific_date", NoDay, <<>>, [y |-> 2024, m |-> 6, d |-> 15]>>,
                     <<"specific_date", NoDay, <<>>, [y |-> 2024, m |-> 2, d |-> 29]>>}
              IN
              {ConfigRow(id, r[1], r[2], r[3], r[4], a) : r \in RuleSamples, a \in BOOLEAN}
        IN
        {{c} : c \in ConfigsWithId("c1")}
          \cup {{c, c2} : c \in ConfigsWithId("c1"), c2 \in ConfigsWithId("c2")}
  IN
  /\ InitTables /\ couple = NewCouple
  /\ probe \in {[fn |-> "checkToday", today |-> t, configs |-> cs, done |-> FALSE,
                  out |-> [is_checkpoint_day |-> FALSE, checkpoints |-> {}]] :
                   t \in Calendar, cs \in ConfigTables}

NextCheckpointDay == checkToday

SpecCheckpointDay == InitCheckpointDay /\ [][NextCheckpointDay]_vars

\* -------------------------------------------------------- getNextCheckpointDate
NoTime == [y |-> 0, m |-> 0, d |-> 0, t |-> 0]   \* the Date | null result when null
OnOrAfter(date, now) == isAfter(date, now) \/ isSameDay(date, now)

\* variant: this month's day counts only when it is after today
MonthlyCandidates_AfterOnly(config, now) ==
  IF config.day_of_month # NoDay
  THEN (IF isAfter(NewDate(getYear(now), now.m - 1, config.day_of_month), now)
        THEN <<NewDate(getYear(now), now.m - 1, config.day_of_month)>> ELSE <<>>)
         \o <<NewDate(getYear(now), now.m, config.day_of_month)>>
  ELSE <<>>

\* case 'monthly': today.getMonth() is now.m - 1
MonthlyCandidates(config, now) ==
  IF config.day_of_month # NoDay
  THEN LET thisMonth == NewDate(getYear(now), now.m - 1, config.day_of_month)
           nextMonth == NewDate(getYear(now), now.m, config.day_of_month)
       IN (IF OnOrAfter(thisMonth, now) THEN <<thisMonth>> ELSE <<>>) \o <<nextMonth>>
  ELSE <<>>

\* for (const month of config.months): this year's date if not past, next year's always
RECURSIVE MonthsLoop(_, _, _)
MonthsLoop(months, config, now) ==
  IF months = <<>> THEN <<>>
  ELSE LET month == Head(months)
           date == NewDate(getYear(now), month - 1, config.day_of_month)
           nextYearDate == NewDate(getYear(now) + 1, month - 1, config.day_of_month)
       IN (IF OnOrAfter(date, now) THEN <<date>> ELSE <<>>)
            \o <<nextYearDate>> \o MonthsLoop(Tail(months), config, now)

\* variant: the dates of next year are left out
MonthSetCandidates_ThisYear(config, now) ==
  IF config.day_of_month # NoDay
  THEN SelectSeq(MonthsLoop(config.months, config, now), LAMBDA x : x.y = getYear(now))
  ELSE <<>>

\* case 'quarterly' / 'semi_annual'
MonthSetCandidates(config, now) ==
  IF config.day_of_month # NoDay
  THEN MonthsLoop(config.months, config, now)
  ELSE <<>>

\* variant: the date is never moved on to next year
SpecificDateCandidates_ThisYear(config, now) ==
  IF config.specific_date # NoDate
  THEN <<setYear(parseISO(config.specific_date), getYear(now))>>
  ELSE <<>>

\* case 'specific_date'
SpecificDateCandidates(config, now) ==
  IF config.specific_date # NoDate
  THEN LET date == parseISO(config.specific_date)
           thisYearDate == setYear(date, getYear(now))
       IN IF isBefore(thisYearDate, now) /\ ~isSameDay(thisYearDate, now)
          THEN <<setYear(date, getYear(now) + 1)>>
          ELSE <<thisYearDate>>
  ELSE <<>>

\* switch (config.frequency)
candidateDates(config, now) ==
  IF config.frequency = "monthly" THEN MonthlyCandidates(config, now)
  ELSE IF config.frequency \in {"quarterly", "semi_annual"} THEN MonthSetCandidates(config, now)
  ELSE SpecificDateCandidates(config, now)

\* variant: a candidate is taken only while nextDate is null
Earliest_FirstSeen(candidates, nextDate) ==
  IF nextDate = NoTime /\ candidates # <<>> THEN Head(candidates) ELSE nextDate

\* for (const candidate of candidateDates) if (nextDate === null || isBefore(...))
RECURSIVE Earliest(_, _)
Earliest(candidates, nextDate) ==
  IF candidates = <<>> THEN nextDate
  ELSE Earliest(Tail(candidates),
                IF nextDate = NoTime \/ isBefore(Head(candidates), nextDate)
                THEN Head(candidates) ELSE nextDate)

\* for (const config of configs): inactive configs are skipped
RECURSIVE ConfigsLoop(_, _, _)
ConfigsLoop(configs, now, nextDate) ==
  IF configs = <<>> THEN nextDate
  ELSE ConfigsLoop(Tail(configs), now,
                   IF Head(configs).is_active
                   THEN Earliest(candidateDates(Head(configs), now), nextDate)
                   ELSE nextDate)

getNextCheckpointDate(configs, now) == ConfigsLoop(configs, now, NoTime)

\* The settings screen shows the next checkpoint of the couple's configs.
nextCheckpointDate ==
  /\ probe.fn = "getNextCheckpointDate" /\ ~probe.done
  /\ probe' = [probe EXCEPT !.done = TRUE,
                            !.out = getNextCheckpointDate(probe.configs, probe.now)]
  /\ UNCHANGED <<clock, couple, entries, checkpoint_configs, checkpoint_reveals,
                 reveal_history, call, response>>

InitNextDate ==
  LET ConfigLists ==
        LET ScheduleSamples ==
              LET SpecificDates ==
                    {[y |-> 2024, m |-> 6, d |-> 15], [y |-> 2024, m |-> 2, d |-> 29],
                     [y |-> 2024, m |-> 3, d |-> 8], [y |-> 2023, m |-> 12, d |-> 31]}
              IN LET DaysOfMonth == 1..28
              IN LET MonthArrays == {<<3, 6, 9, 12>>, <<6, 12>>, <<1, 4, 7, 10>>, <<12, 6>>, <<12>>, <<2>>, <<>>}
              IN
              {ConfigRow("c1", "monthly", d, <<>>, NoDate, TRUE) : d \in DaysOfMonth}
                \cup {ConfigRow("c1", f, d, ms, NoDate, TRUE) :
                        f \in {"quarterly", "semi_annual"}, d \in {1, 15, 28}, ms \in MonthArrays}
                \cup {ConfigRow("c1", "specific_date", NoDay, <<>>, sd, a) :
                        sd \in SpecificDates, a \in BOOLEAN}
        IN LET PairSamples ==
              {ConfigRow("c1", "monthly", 10, <<>>, NoDate, TRUE),
               ConfigRow("c1", "monthly", 20, <<>>, NoDate, TRUE),
               ConfigRow("c1", "monthly", 15, <<>>, NoDate, FALSE),
               ConfigRow("c1", "monthly", NoDay, <<>>, NoDate, TRUE),
               ConfigRow("c1", "quarterly", 15, <<3, 6, 9, 12>>, NoDate, TRUE),
               ConfigRow("c1", "semi_annual", 28, <<6, 12>>, NoDate, TRUE),
               ConfigRow("c1", "specific_date", NoDay, <<>>, [y |-> 2024, m |-> 6, d |-> 15], TRUE),
               ConfigRow("c1", "specific_date", NoDay, <<>>, [y |-> 2024, m |-> 2, d |-> 29], TRUE),
               ConfigRow("c1", "specific_date", NoDay, <<>>, [y |-> 2024, m |-> 3, d |-> 8], FALSE)}
        IN
        {<<>>} \cup {<<c>> : c \in ScheduleSamples}
               \cup {<<c, [c2 EXCEPT !.id = "c2"]>> : c \in PairSamples, c2 \in PairSamples}
  IN
  /\ InitTables /\ couple = NewCouple
  /\ probe \in {[fn |-> "getNextCheckpointDate", now |-> n, configs |-> cs,
                  done |-> FALSE, out |-> NoTime] : n \in Now, cs \in ConfigLists}

NextNextDate == nextCheckpointDate

SpecNextDate == InitNextDate /\ [][NextNextDate]_vars

\* ------------------------------------------------- the reveal screen's button
\* useCouple.isRevealReady as a render of the screen computes it today
RevealReadyNow ==
  /\ couple.anniversary_date # NoDate
  /\ isAnniversaryReady(couple.anniversary_date, couple.last_reveal_year,
                        [y |-> today.y, m |-> today.m, d |-> today.d, t |-> 1])

\* RevealScreen: the open button is rendered when isRevealReady (and the
\* reveal has not been started); onPress calls loadStats(couple.id,
\* currentYear) if isRevealed, triggerReveal(couple.id) otherwise.
handleOpen(s) ==
  /\ RevealReadyNow
  /\ IF couple.is_revealed THEN loadStats(s, today.y) ELSE BeginTrigger(s)

\* The reveal as the screen drives it: every trigger starts at the button.
NextScreen ==
  \/ NoCallInFlight /\ Tick
  \/ setAnniversaryDate(AnniversaryInput)
  \/ \E s \in Sessions : handleOpen(s)
  \/ \E s \in Sessions : ContinueTrigger(s)

SpecScreen == Init /\ [][NextScreen]_vars

\* check_checkpoint_today over the couple's configs on date d
CheckpointToday(d) ==
  \* the recurrence rule of the couple's config: monthly, on the 10th
  LET ConfigRule(c) == ConfigRow(c, "monthly", 10, <<>>, NoDate, TRUE)
  IN
  check_checkpoint_today({ConfigRule(c) : c \in {x \in ConfigIds : checkpoint_configs[x] = "active"}}, d)

\* useCheckpoint's state as the mounted reveal screen holds it
ScreenState(isCheckpointDay, todaysCheckpoints) ==
  [fn |-> "RevealScreen", isCheckpointDay |-> isCheckpointDay,
   todaysCheckpoints |-> todaysCheckpoints]

\* RevealScreen's effect: if (couple?.id && !isRevealReady) checkToday(couple.id).
\* It runs when the screen mounts or isRevealReady changes, not when the
\* date changes.
checkTodayEffect ==
  /\ ~RevealReadyNow
  /\ probe' = ScreenState(CheckpointToday(today).is_checkpoint_day,
                          CheckpointToday(today).checkpoints)
  /\ probe' # probe
  /\ response' = NoResult
  /\ UNCHANGED <<clock, couple, entries, checkpoint_configs, checkpoint_reveals,
                 reveal_history, call>>

\* The "Reveal Entry" button, rendered when !isRevealReady and isCheckpointDay
\* && todaysCheckpoints.length > 0: revealEntry(couple.id, todaysCheckpoints[0].id).
handleCheckpointReveal(s) ==
  /\ ~RevealReadyNow
  /\ probe.isCheckpointDay /\ probe.todaysCheckpoints # {}
  /\ GetCheckpointEntry_Existing(s, CHOOSE c \in probe.todaysCheckpoints : TRUE)

InitScreenCheckpoint ==
  /\ InitTables /\ couple = NewCouple /\ probe = ScreenState(FALSE, {})

NextScreenCheckpoint ==
  \/ NoCallInFlight /\ Tick
  \/ setAnniversaryDate(AnniversaryInput)
  \/ EntryStep
  \/ ConfigStep
  \/ checkTodayEffect
  \/ \E s \in Sessions : handleCheckpointReveal(s)
  \/ \E s \in Sessions : ContinueCheckpoint(s)

SpecScreenCheckpoint == InitScreenCheckpoint /\ [][NextScreenCheckpoint]_vars

\* The checkpoint calls with the count of what is left asked in between, by
\* the partners and by the outsider.
NextCount ==
  \/ NoCallInFlight /\ Tick
  \/ EntryStep
  \/ \E s \in Sessions : BeginCheckpoint(s)
  \/ \E s \in Sessions : ContinueCheckpoint(s)
  \/ \E s \in Callers : getUnrevealedCount(s)

SpecCount == Init /\ [][NextCount]_vars

\* A fixed entries table (published entries, drafts, no row) and a config
\* that exists or not; nothing disclosed yet.
InitExhaust ==
  LET SavedEntry(e, isDraft) ==
        [state |-> "row", author_id |-> OwnerOfId(e), is_draft |-> isDraft,
         entry_date |-> FormEntryDate(e), complete |-> FormComplete(e)]
  IN
  /\ clock = 1
  /\ entries \in [EntryIds -> {Absent} \cup {SavedEntry(e, f) : e \in EntryIds, f \in BOOLEAN}]
  /\ \A e \in EntryIds : entries[e] \in {Absent, SavedEntry(e, TRUE), SavedEntry(e, FALSE)}
  /\ checkpoint_configs \in [ConfigIds -> {"absent", "active"}]
  /\ checkpoint_reveals = EmptyBag
  /\ reveal_history = EmptyBag
  /\ call = [s \in Callers |-> Idle]
  /\ response = NoResult
  /\ couple = NewCouple /\ probe = [fn |-> "none"]

\* partner 1 asks for the day's entry, once on every date
dailyCall(s) ==
  /\ UserOf(s) = partner_1_id
  /\ NoCallInFlight /\ response.op # "checkpoint"
  /\ BeginCheckpoint(s)

\* the date advances after the day's call has been answered
nextDay == NoCallInFlight /\ response.op = "checkpoint" /\ Tick

NextExhaust ==
  \/ \E s \in Sessions : dailyCall(s)
  \/ \E s \in Sessions : ContinueCheckpoint(s)
  \/ nextDay

\* Every statement of a running call is executed, and the day's call is made.
SpecExhaust == InitExhaust /\ [][NextExhaust]_vars /\ WF_vars(NextExhaust)

\* ------------------------------------------ get_reveal_stats, the statistics
\* The statistics of get_reveal_stats beyond the two entry counts, computed
\* over a table t of entries rows (a sequence of rows with author_id,
\* is_draft, entry_date, word_count and mood; mood NULL is the text NULL).
RECURSIVE DaysBeforeMonth(_, _)
DaysBeforeMonth(y, m) == IF m <= 1 THEN 0 ELSE DaysInMonth(y, m - 1) + DaysBeforeMonth(y, m - 1)
\* a DATE as a day number (date - integer and date - date are day arithmetic)
DayNumber(d) ==
  (d.y - 2024) * 365 + Cardinality({k \in 2024..(d.y - 1) : IsLeapYear(k)})
    + DaysBeforeMonth(d.y, d.m) + d.d
NoMonth == 0
NoDow == 7

\* WHERE [author_id = u AND] NOT is_draft AND entry_date in [v_year_start, v_year_end]
StatEntries(t, u, p_year) ==
  {i \in DOMAIN t : /\ (u = NULL \/ t[i].author_id = u)
                    /\ ~t[i].is_draft
                    /\ DateLE(YearStart(p_year), t[i].entry_date)
                    /\ DateLE(t[i].entry_date, YearEnd(p_year))}

MaxOf(S) == CHOOSE x \in S : \A z \in S : z <= x

\* variant: the rows numbered as they are, without DISTINCT
longest_streak_PerEntry(t, u, p_year) ==
  LET sub == StatEntries(t, u, p_year)
      day(i) == DayNumber(t[i].entry_date)
      row_number(i) == Cardinality({j \in sub : day(j) < day(i) \/ (day(j) = day(i) /\ j <= i)})
      grp(i) == day(i) - row_number(i)
      streak_len(g) == Cardinality({i \in sub : grp(i) = g})
  IN IF sub = {} THEN 0 ELSE MaxOf({streak_len(grp(i)) : i \in sub})

\* SELECT DISTINCT entry_date; grp = entry_date - ROW_NUMBER() OVER (ORDER BY
\* entry_date); COUNT(*) GROUP BY grp; COALESCE(MAX(streak_len), 0)
longest_streak(t, u, p_year) ==
  LET sub == {DayNumber(t[i].entry_date) : i \in StatEntries(t, u, p_year)}
      row_number(x) == Cardinality({z \in sub : z <= x})
      grp(x) == x - row_number(x)
      streak_len(g) == Cardinality({x \in sub : grp(x) = g})
  IN IF sub = {} THEN 0 ELSE MaxOf({streak_len(grp(x)) : x \in sub})

\* COALESCE(MAX(word_count), 0)
longest_entry_words(t, p_year) ==
  IF StatEntries(t, NULL, p_year) = {} THEN 0
  ELSE MaxOf({t[i].word_count : i \in StatEntries(t, NULL, p_year)})

\* ORDER BY word_count DESC LIMIT 1: a row with the greatest word count; among
\* equal word counts the order is not specified.  0 stands for "no row".
LongestRows(t, p_year) ==
  IF StatEntries(t, NULL, p_year) = {} THEN {0}
  ELSE {i \in StatEntries(t, NULL, p_year) : t[i].word_count = longest_entry_words(t, p_year)}

\* GROUP BY key ORDER BY COUNT(*) DESC LIMIT 1 over the rows S: a key with the
\* greatest count; among equal counts the order is not specified.
Winners(S, key, null) ==
  LET keys == {key[i] : i \in S}
      count(k) == Cardinality({i \in S : key[i] = k})
  IN IF keys = {} THEN {null} ELSE {k \in keys : \A z \in keys : count(z) <= count(k)}

MostActiveMonths(t, p_year) ==
  Winners(StatEntries(t, NULL, p_year), [i \in DOMAIN t |-> t[i].entry_date.m], NoMonth)
most_active_month_count(t, p_year) ==
  IF StatEntries(t, NULL, p_year) = {} THEN 0
  ELSE MaxOf({Cardinality({i \in StatEntries(t, NULL, p_year) : t[i].entry_date.m = k}) : k \in 1..12})
TopMoods(t, u, p_year) ==
  Winners({i \in StatEntries(t, u, p_year) : t[i].mood # NULL}, [i \in DOMAIN t |-> t[i].mood], NULL)
FavoriteDows(t, u, p_year) ==
  LET DayOfWeek(d) == (DayNumber(d) - 1) % 7
  IN
  Winners(StatEntries(t, u, p_year), [i \in DOMAIN t |-> DayOfWeek(t[i].entry_date)], NoDow)

\* The records one evaluation can return: json_build_object of the
\* subqueries, each LIMIT 1 subquery taking any first row of its order.
RevealStats(t, p_year) ==
  {[partner_1_entries |-> Cardinality(StatEntries(t, partner_1_id, p_year)),
    partner_2_entries |-> Cardinality(StatEntries(t, partner_2_id, p_year)),
    most_active_month |-> mam,
    most_active_month_count |-> most_active_month_count(t, p_year),
    longest_entry_words |-> longest_entry_words(t, p_year),
    longest_entry_author_id |-> IF la = 0 THEN NULL ELSE t[la].author_id,
    longest_entry_date |-> IF ld = 0 THEN NoDate ELSE t[ld].entry_date,
    partner_1_longest_streak |-> longest_streak(t, partner_1_id, p_year),
    partner_2_longest_streak |-> longest_streak(t, partner_2_id, p_year),
    partner_1_top_mood |-> m1,
    partner_2_top_mood |-> m2,
    partner_1_favorite_dow |-> d1,
    partner_2_favorite_dow |-> d2] :
      mam \in MostActiveMonths(t, p_year),
      la \in LongestRows(t, p_year), ld \in LongestRows(t, p_year),
      m1 \in TopMoods(t, partner_1_id, p_year), m2 \in TopMoods(t, partner_2_id, p_year),
      d1 \in FavoriteDows(t, partner_1_id, p_year), d2 \in FavoriteDows(t, partner_2_id, p_year)}

\* supabase.rpc('get_reveal_stats', {p_couple_id, p_year}): the first and the
\* second evaluation over the same table (a replay of the same year).
revealStats ==
  /\ probe.fn = "get_reveal_stats" /\ probe.evaluations < 2
  /\ \E out \in RevealStats(probe.rows, probe.p_year) :
       probe' = [probe EXCEPT !.evaluations = @ + 1, !.out = out, !.first = probe.out]
  /\ UNCHANGED <<clock, couple, entries, checkpoint_configs, checkpoint_reveals,
                 reveal_history, call, response>>

InitStats ==
  LET StatTables ==
        LET DatedRows ==
              LET StatDates ==
                    {[y |-> 2024, m |-> 2, d |-> 28], [y |-> 2024, m |-> 2, d |-> 29],
                     [y |-> 2024, m |-> 3, d |-> 1], [y |-> 2024, m |-> 12, d |-> 31],
                     [y |-> 2025, m |-> 1, d |-> 1]}
              IN
              {[author_id |-> a, is_draft |-> f, entry_date |-> d, word_count |-> 0, mood |-> NULL] :
                 a \in Partners, f \in BOOLEAN, d \in StatDates}
        IN LET WrittenRows ==
              {[author_id |-> a, is_draft |-> f, entry_date |-> d, word_count |-> w, mood |-> m] :
                 a \in Partners, f \in BOOLEAN,
                 d \in {[y |-> 2024, m |-> 2, d |-> 29], [y |-> 2024, m |-> 3, d |-> 1]},
                 w \in {5, 9}, m \in {NULL, "happy", "calm"}}
        IN
        {<<>>} \cup {<<a, b, c>> : a \in DatedRows, b \in DatedRows, c \in DatedRows}
               \cup {<<a, b>> : a \in WrittenRows, b \in WrittenRows}
  IN
  /\ InitTables /\ couple = NewCouple
  /\ probe \in {[fn |-> "get_reveal_stats", rows |-> t, p_year |-> y, evaluations |-> 0,
                  out |-> NoStats, first |-> NoStats] : t \in StatTables, y \in CalendarYears}

NextStats == revealStats

SpecStats == InitStats /\ [][NextStats]_vars

\* Every operation, the calls one after the other: a call is issued only when
\* no call is in flight.
Next ==
  \/ NoCallInFlight /\ Tick
  \/ setAnniversaryDate(AnniversaryInput)
  \/ EntryStep
  \/ ConfigStep
  \/ NoCallInFlight /\ \E s \in Sessions : BeginCheckpoint(s) \/ BeginTrigger(s)
  \/ \E s \in Sessions : ContinueCheckpoint(s) \/ ContinueTrigger(s)

Spec == Init /\ [][Next]_vars

\* ------------------------------------------------- who can read which entry
\* policy "Authors can manage own entries"
AuthorsCanManageOwnEntries(u, e) == entries[e].author_id = u

\* variant: the policy without its is_draft = false condition
PartnerEntriesVisibleAfterReveal_Drafts(u, e) ==
  /\ entries[e].author_id # u
  /\ u \in Partners /\ couple.is_revealed = TRUE

\* policy "Partner entries visible after reveal"
PartnerEntriesVisibleAfterReveal(u, e) ==
  /\ entries[e].author_id # u
  /\ u \in Partners /\ couple.is_revealed = TRUE
  /\ entries[e].is_draft = FALSE

\* policy "Partner entries visible via checkpoint"
PartnerEntriesVisibleViaCheckpoint(u, e) ==
  /\ entries[e].author_id # u
  /\ e \in RevealedTo(u)
  /\ entries[e].is_draft = FALSE

\* SELECT on entries under row level security: permissive policies are OR-ed.
CanSelect(u, e) ==
  /\ Exists(e)
  /\ \/ AuthorsCanManageOwnEntries(u, e)
     \/ PartnerEntriesVisibleAfterReveal(u, e)
     \/ PartnerEntriesVisibleViaCheckpoint(u, e)

\* get_checkpoint_history (SECURITY DEFINER): the entries joined to the
\* caller's checkpoint_reveals rows, without a look at is_draft.
InCheckpointHistory(u, e) == Exists(e) /\ e \in RevealedTo(u)

Readable(u, e) == CanSelect(u, e) \/ InCheckpointHistory(u, e)

\* The reveal gate of section 4.2, from the couples row and today's date.
ReadyToOpen == couple.anniversary_date # NoDate /\ isReady(couple, today)
\* ===================================================================== claims
PartnerEntriesOf(u) == {e \in EntryIds : Published(e) /\ entries[e].author_id = PartnerOf(u)}
RowsOn(u, d) == BagCardinality([r \in RevealsOn(u, d) |-> checkpoint_reveals[r]])
Acts(s) == call'[s] # call[s] \/ response'.session = s

\* C1: after any interleaving of get_checkpoint_entry calls the
\* checkpoint_reveals table holds at most one row per (entry, viewer).
C1_UniqueEntryPerViewer ==
  \A e \in EntryIds, u \in Partners : RowCount(e, u) <= 1

\* two concurrent calls picked the same entry and the second insert was refused
C1_Witness ==
  /\ response.error = "unique_entry_per_user"
  /\ \E e \in EntryIds : RowCount(e, response.viewer) = 1

\* C2: concurrent or retried calls of one viewer on one date release exactly
\* one entry: at most one checkpoint_reveals row per (viewer, date).
C2_OneRevealPerViewerDate ==
  \A u \in Partners, i \in 1..NumDates : RowsOn(u, DateAt(i)) <= 1

\* C3: of two successive calls on one date the second returns the entry of the
\* first: an entry returned for (viewer, date) is that date's only row.
C3_SuccessiveCallsSameEntry ==
  (response.op = "checkpoint" /\ response.entry # NoEntry) =>
     /\ RowsOn(response.viewer, response.date) = 1
     /\ \A r \in RevealsOn(response.viewer, response.date) : r.entry_id = response.entry

\* C4: the gate read and the couples write are one atomic step: no two calls
\* are past the gate check for the same year.
C4_TriggerAtomic ==
  LET PassedGate(s) == call[s].pc \in {"update", "stats", "save"}
  IN
  \A s1, s2 \in Sessions :
    (s1 # s2 /\ PassedGate(s1) /\ PassedGate(s2)) =>
       call[s1].currentYear # call[s2].currentYear

\* C5: once no triggerReveal is in flight, the couple is revealed for year y
\* exactly if a reveal_history row for y exists (failures are all-or-nothing).
C5_AllOrNothing ==
  NoCallInFlight =>
    \A y \in Years :
      /\ (couple.is_revealed /\ couple.last_reveal_year = y) => HasSnapshot(y)
      /\ HasSnapshot(y) => (couple.is_revealed /\ couple.last_reveal_year >= y)

\* C6: over a sequence of triggerReveal calls last_reveal_year never decreases,
\* and once it is the current year a further call leaves it unchanged.
C6_RevealMonotone ==
  [][/\ couple'.last_reveal_year >= couple.last_reveal_year
     /\ couple.last_reveal_year = today.y =>
          couple'.last_reveal_year = couple.last_reveal_year]_vars

\* a triggerReveal has returned after writing the reveal of a second year
C6_Witness ==
  /\ response.op = "trigger" /\ response.error = NULL
  /\ couple.last_reveal_year = DateAt(NumDates).y
  /\ \E y \in Years : y < couple.last_reveal_year /\ HasSnapshot(y)

AllDisclosed(u) == \A e \in PartnerEntriesOf(u) : RowCount(e, u) > 0

\* C8 (as claimed): once every published partner entry is disclosed to a
\* viewer, no call of that viewer is answered with an entry.
C8_ExhaustedNoEntry ==
  (response.op = "checkpoint" /\ AllDisclosed(response.viewer)) =>
     ~response.already_revealed

\* C8 (amended): while every published partner entry is disclosed to a viewer,
\* no step of a call of that viewer inserts a row, the selection reports
\* no_entries, and a call that is answered without an error reports no_entries
\* with no entry or already_revealed with an entry disclosed that day.
C8_ExhaustedInsertsNothing ==
  [][\A s \in Sessions :
       (AllDisclosed(UserOf(s)) /\ Acts(s) /\ response'.op # "trigger"
          /\ call[s].pc \in {"idle", "select", "insert"})
       => /\ checkpoint_reveals' = checkpoint_reveals
          /\ call[s].pc = "select" =>
               (response'.no_entries /\ response'.entry = NoEntry)
          /\ (response'.op = "checkpoint" /\ response'.error = NULL) =>
               \/ response'.no_entries /\ response'.entry = NoEntry
               \/ /\ response'.already_revealed
                  /\ \E r \in RevealsOn(UserOf(s), today) : r.entry_id = response'.entry]_vars

\* a call on a later day finds everything disclosed
C8_Witness ==
  /\ response.op = "checkpoint" /\ response.no_entries
  /\ PartnerEntriesOf(response.viewer) # {}
  /\ AllDisclosed(response.viewer)

\* C9: a user can read a partner's entry only if it is published and the
\* couple is revealed or the entry was disclosed to that user by a checkpoint.
C9_PartnerReadNeedsDisclosure ==
  \A u \in Partners, e \in EntryIds :
    (Exists(e) /\ entries[e].author_id # u /\ Readable(u, e)) =>
       /\ ~entries[e].is_draft
       /\ couple.is_revealed \/ RowCount(e, u) > 0

\* a partner's entry is read through the annual reveal while another of the
\* partner's entries is still a draft
C9_Witness ==
  \E u \in Partners, e1, e2 \in EntryIds :
    /\ Exists(e1) /\ entries[e1].author_id # u /\ Readable(u, e1) /\ RowCount(e1, u) = 0
    /\ Exists(e2) /\ entries[e2].author_id # u /\ entries[e2].is_draft /\ ~Readable(u, e2)

\* C10: while this year's reveal has not been triggered (gate Locked or
\* ReadyToOpen) a partner's published entry is readable only through a
\* checkpoint disclosure.
C10_PrivateUntilDisclosure ==
  LET Locked == couple.last_reveal_year = NoYear /\ ~ReadyToOpen
  IN
  (Locked \/ ReadyToOpen) =>
    \A u \in Partners, e \in EntryIds :
      (Published(e) /\ entries[e].author_id # u /\ Readable(u, e)) => RowCount(e, u) > 0

\* C11 (as claimed): last_reveal_year is non-null only if is_revealed is true,
\* and whenever last_reveal_year changes it changes to a strictly greater year.
C11_YearOnlyGrows ==
  [][/\ couple'.last_reveal_year # NoYear => couple'.is_revealed
     /\ couple'.last_reveal_year # couple.last_reveal_year =>
          (couple'.last_reveal_year # NoYear
             /\ couple'.last_reveal_year > couple.last_reveal_year)]_vars

\* C11 (amended): last_reveal_year is non-null only if is_revealed is true, and
\* whenever last_reveal_year changes it changes to a strictly greater year or,
\* by the developer reset, to null together with is_revealed = false.
C11_YearGrowsOrIsReset ==
  [][/\ couple'.last_reveal_year # NoYear => couple'.is_revealed
     /\ couple'.last_reveal_year # couple.last_reveal_year =>
          \/ couple'.last_reveal_year # NoYear
               /\ couple'.last_reveal_year > couple.last_reveal_year
          \/ couple'.last_reveal_year = NoYear /\ ~couple'.is_revealed]_vars

\* a reveal that saved its snapshot was undone by the developer reset
C11_Witness ==
  /\ couple.last_reveal_year = NoYear /\ ~couple.is_revealed
  /\ \E y \in Years : HasSnapshot(y)

\* today's month and day lie before the anniversary's month and day
BeforeAnniversary ==
  \/ today.m < couple.anniversary_date.m
  \/ today.m = couple.anniversary_date.m /\ today.d < couple.anniversary_date.d
\* C12: a triggerReveal while the anniversary is unset is rejected with 'No
\* anniversary date set', one while the gate is not ready (before this year's
\* anniversary, or already revealed this year) with 'Anniversary has not been
\* reached yet'; both leave the couples row and reveal_history unchanged.
C12_RejectedNoSideEffects ==
  [][LET GateAnswers(s) ==
           /\ call[s].pc = "idle"
           /\ \/ call'[s].pc = "update"
              \/ response'.op = "trigger" /\ response'.session = s /\ response'.error # "Session expired"
     IN
     \A s \in Sessions :
       (GateAnswers(s) /\ (couple.anniversary_date = NoDate \/ BeforeAnniversary
                             \/ couple.last_reveal_year = today.y))
       => /\ response'.op = "trigger" /\ response'.session = s
          /\ response'.error = IF couple.anniversary_date = NoDate
                               THEN "No anniversary date set"
                               ELSE "Anniversary has not been reached yet"
          /\ call'[s].pc = "idle"
          /\ couple' = couple
          /\ reveal_history' = reveal_history]_vars

\* a trigger is rejected before the anniversary of a year that was never revealed
C12_Witness ==
  /\ response.op = "trigger"
  /\ response.error = "Anniversary has not been reached yet"
  /\ BeforeAnniversary /\ couple.last_reveal_year = NoYear

\* C13: get_checkpoint_entry called by a user who is not a partner of the
\* couple fails with 'Invalid couple or not a member': no entry is returned,
\* the call ends at once and no checkpoint_reveals row is inserted.
C13_OutsiderTurnedAway ==
  [][\A s \in Callers :
       (UserOf(s) \notin Partners /\ Acts(s))
       => /\ response'.op = "checkpoint" /\ response'.session = s
          /\ response'.error = "Invalid couple or not a member"
          /\ response'.entry = NoEntry
          /\ call'[s].pc = "idle"
          /\ checkpoint_reveals' = checkpoint_reveals]_vars

\* the outsider is turned away while a partner's published entry is undisclosed
C13_Witness ==
  /\ response.op = "checkpoint" /\ response.viewer = outsider_id
  /\ response.error = "Invalid couple or not a member"
  /\ \E e \in EntryIds : Published(e) /\ RevealedTo(partner_1_id) = {}

\* C14: reveal_history holds at most one row per (couple, year), and a row of
\* year y that exists is changed only by the save of a triggerReveal that runs
\* in year y itself, never by a trigger or a view in a later year.
C14_OneSnapshotPerYear ==
  [][\A y \in Years :
       /\ SnapshotCount(reveal_history', y) <= 1
       /\ (HasSnapshot(y) /\ SnapshotRows(reveal_history', y) # SnapshotRows(reveal_history, y))
          => /\ today.y = y
             /\ \E s \in Sessions : /\ call[s].pc = "save" /\ call[s].p_year = y
                                    /\ call'[s].pc = "idle"
                                    /\ response'.op = "trigger" /\ response'.session = s]_vars

\* in the second year the first year's snapshot is viewed while the second
\* year's snapshot exists too
C14_Witness ==
  /\ response.op = "view" /\ response.year < today.y
  /\ HasSnapshot(response.year) /\ HasSnapshot(today.y)

\* C15 (as claimed): once a checkpoint_reveals row exists no operation updates
\* or removes it.
C15_ReceiptsPermanent ==
  [][\A r \in Rows :
       /\ r \in BagToSet(checkpoint_reveals')
       /\ checkpoint_reveals'[r] >= checkpoint_reveals[r]]_vars

\* C15 (amended): a checkpoint_reveals row is removed only with its entry, and
\* is updated only by the deletion of its config, which sets its
\* checkpoint_config_id to NULL; entry, viewer and date of a row never change,
\* so the disclosed (entry, viewer) pairs of existing entries only grow.
C15_ReceiptsOutliveConfigs ==
  [][\A r \in Rows :
       IF entries'[r.entry_id].state = "row"
       THEN \E r2 \in BagToSet(checkpoint_reveals') :
              /\ r2.entry_id = r.entry_id
              /\ r2.revealed_to_user_id = r.revealed_to_user_id
              /\ r2.checkpoint_date = r.checkpoint_date
              /\ \/ r2.checkpoint_config_id = r.checkpoint_config_id
                 \/ /\ r2.checkpoint_config_id = NULL
                    /\ checkpoint_configs[r.checkpoint_config_id] = "active"
                    /\ checkpoint_configs'[r.checkpoint_config_id] = "deleted"
       ELSE /\ Exists(r.entry_id)
            /\ \A r2 \in BagToSet(checkpoint_reveals') : r2.entry_id # r.entry_id]_vars

\* the config and an entry were deleted, a disclosure row of the other entry is
\* still there and names no config
C15_Witness ==
  /\ \E c \in ConfigIds : checkpoint_configs[c] = "deleted"
  /\ \E e \in EntryIds : entries[e] = Deleted
  /\ \E r \in Rows : r.checkpoint_config_id = NULL /\ Exists(r.entry_id)

\* the entries a call of viewer u may newly disclose: published, written by the
\* other partner, without a checkpoint_reveals row for u
Candidates(u) ==
  {e \in EntryIds : /\ entries[e].state = "row" /\ entries[e].is_draft = FALSE
                    /\ entries[e].author_id \in Partners \ {u}
                    /\ RowCount(e, u) = 0}
\* the rows a step adds to checkpoint_reveals
Inserted ==
  {r \in BagToSet(checkpoint_reveals') :
     IF r \in Rows THEN checkpoint_reveals'[r] > checkpoint_reveals[r] ELSE TRUE}
\* session s picks or discloses only candidates of its viewer in this step
DisclosesCandidatesOnly(s) ==
  /\ (call[s].pc = "select" /\ call'[s].pc = "insert") => call'[s].pick \in Candidates(UserOf(s))
  /\ call[s].pc = "insert" =>
       \A r \in Inserted : /\ r.revealed_to_user_id = UserOf(s)
                           /\ r.entry_id = response'.entry
                           /\ r.entry_id \in Candidates(UserOf(s))
  /\ call[s].pc # "insert" => Inserted = {}
\* a call of session s is answered without an error in this step
Answered(s) ==
  /\ Acts(s) /\ call[s].pc \in {"idle", "select", "insert"}
  /\ response'.op = "checkpoint" /\ response'.session = s /\ response'.error = NULL

C17_ReadyExactlyWhen ==
  LET OnOrAfterMonthDay(now, a) == now.m > a.m \/ (now.m = a.m /\ now.d >= a.d)
  IN
  (probe.fn = "isRevealReady" /\ probe.done) =>
     (probe.out <=>
        /\ couple.anniversary_date # NoDate
        /\ OnOrAfterMonthDay(probe.now, couple.anniversary_date)
        /\ couple.last_reveal_year = NoYear \/ couple.last_reveal_year < probe.now.y)

\* the gate opens again at midnight of the anniversary of the year after a reveal
C17_Witness ==
  /\ probe.fn = "isRevealReady" /\ probe.done /\ probe.out
  /\ couple.last_reveal_year = probe.now.y - 1
  /\ probe.now.m = couple.anniversary_date.m /\ probe.now.d = couple.anniversary_date.d
  /\ probe.now.t = 0

\* C18: check_checkpoint_today answers is_checkpoint_day = true exactly when
\* some active config's rule names today's month and day (a specific date in
\* any year), and returns exactly the active configs whose rule does.
C18_CheckpointDayMatches ==
  LET RuleNamesDay(c, t) ==
        \/ c.frequency = "monthly" /\ c.day_of_month = t.d
        \/ /\ c.frequency \in {"quarterly", "semi_annual"} /\ c.day_of_month = t.d
           /\ t.m \in {c.months[i] : i \in DOMAIN c.months}
        \/ c.frequency = "specific_date" /\ c.specific_date.m = t.m /\ c.specific_date.d = t.d
  IN
  (probe.fn = "checkToday" /\ probe.done) =>
     /\ probe.out.is_checkpoint_day <=>
          \E c \in probe.configs : c.is_active /\ RuleNamesDay(c, probe.today)
     /\ probe.out.checkpoints =
          {c.id : c \in {x \in probe.configs : x.is_active /\ RuleNamesDay(x, probe.today)}}

\* the only config of the evaluated list, and the evaluated moment's day
TheConfig == probe.configs[1]
Evaluated(frequencies) ==
  /\ probe.fn = "getNextCheckpointDate" /\ probe.done /\ Len(probe.configs) = 1
  /\ TheConfig.frequency \in frequencies /\ TheConfig.is_active
Midnight(y, m, d) == [y |-> y, m |-> m, d |-> d, t |-> 0]

\* C19: for a monthly config with day d getNextCheckpointDate returns day d of
\* the current month when d >= today's day of the month (today included),
\* otherwise day d of the following month, January of the next year in December.
C19_MonthlyNext ==
  Evaluated({"monthly"}) =>
     probe.out =
       IF TheConfig.day_of_month >= probe.now.d
       THEN Midnight(probe.now.y, probe.now.m, TheConfig.day_of_month)
       ELSE IF probe.now.m = 12
       THEN Midnight(probe.now.y + 1, 1, TheConfig.day_of_month)
       ELSE Midnight(probe.now.y, probe.now.m + 1, TheConfig.day_of_month)

\* in December, after the day, the next checkpoint is in January of next year
C19_Witness ==
  /\ Evaluated({"monthly"})
  /\ probe.now.m = 12 /\ TheConfig.day_of_month < probe.now.d
  /\ probe.out = Midnight(probe.now.y + 1, 1, TheConfig.day_of_month)

\* C20: for a quarterly or semi-annual config getNextCheckpointDate returns the
\* earliest date on or after today among day d of each month of the month set
\* in the current and the following year.
C20_MonthSetNext ==
  LET DatesAhead ==
        {x \in {[y |-> yy, m |-> TheConfig.months[i], d |-> TheConfig.day_of_month] :
                  yy \in {probe.now.y, probe.now.y + 1}, i \in DOMAIN TheConfig.months} :
           DateLE([y |-> probe.now.y, m |-> probe.now.m, d |-> probe.now.d], x)}
  IN
  Evaluated({"quarterly", "semi_annual"}) =>
     IF DatesAhead = {} THEN probe.out = NoTime
     ELSE /\ [y |-> probe.out.y, m |-> probe.out.m, d |-> probe.out.d] \in DatesAhead
          /\ probe.out.t = 0
          /\ \A x \in DatesAhead : DateLE([y |-> probe.out.y, m |-> probe.out.m, d |-> probe.out.d], x)

\* after the last date of this year the next one is the first of next year
C20_Witness ==
  /\ Evaluated({"quarterly", "semi_annual"})
  /\ TheConfig.months = <<3, 6, 9, 12>>
  /\ probe.now.m = 12 /\ probe.now.d > TheConfig.day_of_month
  /\ probe.out = Midnight(probe.now.y + 1, 3, TheConfig.day_of_month)

\* today's day as a DATE
Today(now) == [y |-> now.y, m |-> now.m, d |-> now.d]
\* C21 (as claimed): for a specific_date config getNextCheckpointDate returns
\* the configured month and day in the current year when that date is today or
\* later, and the same month and day in the next year otherwise.
C21_SpecificDateNext ==
  LET InYear(sd, y) == [y |-> y, m |-> sd.m, d |-> sd.d]
  IN
  Evaluated({"specific_date"}) =>
     probe.out =
       IF DateLE(Today(probe.now), InYear(TheConfig.specific_date, probe.now.y))
       THEN parseISO(InYear(TheConfig.specific_date, probe.now.y))
       ELSE parseISO(InYear(TheConfig.specific_date, probe.now.y + 1))

\* the month and day of sd in year y, 29 February standing for 1 March when y
\* is not a leap year
OccurrenceIn(sd, y) ==
  IF sd.m = 2 /\ sd.d = 29 /\ DaysInMonth(y, 2) = 28
  THEN [y |-> y, m |-> 3, d |-> 1]
  ELSE [y |-> y, m |-> sd.m, d |-> sd.d]

\* C21 (amended): as claimed, except that a configured 29 February is taken as
\* 1 March in a year that is not a leap year.
C21_SpecificDateNextOrFirstOfMarch ==
  Evaluated({"specific_date"}) =>
     probe.out =
       IF DateLE(Today(probe.now), OccurrenceIn(TheConfig.specific_date, probe.now.y))
       THEN parseISO(OccurrenceIn(TheConfig.specific_date, probe.now.y))
       ELSE parseISO(OccurrenceIn(TheConfig.specific_date, probe.now.y + 1))

\* in a leap year, after 29 February, the next occurrence is 1 March of next year
C21_Witness ==
  /\ Evaluated({"specific_date"})
  /\ TheConfig.specific_date.m = 2 /\ TheConfig.specific_date.d = 29
  /\ IsLeapYear(probe.now.y) /\ probe.now.m > 2
  /\ probe.out = Midnight(probe.now.y + 1, 3, 1)

\* the next occurrence of config c on or after day t (NoDate if it has none)
NextOccurrence(c, t) ==
  LET MinDate(dates) ==
        IF dates = {} THEN NoDate ELSE CHOOSE x \in dates : \A z \in dates : DateLE(x, z)
  IN
  IF c.frequency = "monthly"
  THEN IF c.day_of_month = NoDay THEN NoDate
       ELSE IF c.day_of_month >= t.d THEN [t EXCEPT !.d = c.day_of_month]
       ELSE IF t.m = 12 THEN [y |-> t.y + 1, m |-> 1, d |-> c.day_of_month]
       ELSE [y |-> t.y, m |-> t.m + 1, d |-> c.day_of_month]
  ELSE IF c.frequency = "specific_date"
  THEN IF c.specific_date = NoDate THEN NoDate
       ELSE IF DateLE(t, OccurrenceIn(c.specific_date, t.y))
       THEN OccurrenceIn(c.specific_date, t.y)
       ELSE OccurrenceIn(c.specific_date, t.y + 1)
  ELSE IF c.day_of_month = NoDay THEN NoDate
       ELSE MinDate({x \in {[y |-> yy, m |-> c.months[i], d |-> c.day_of_month] :
                              yy \in {t.y, t.y + 1}, i \in DOMAIN c.months} : DateLE(t, x)})
\* C22: for any list of configs getNextCheckpointDate returns the earliest of
\* the active configs' next occurrences, none when the list is empty or all
\* configs are inactive; the returned date is never earlier than today.
C22_EarliestOfActive ==
  LET MinDate(dates) ==
        IF dates = {} THEN NoDate ELSE CHOOSE x \in dates : \A z \in dates : DateLE(x, z)
  IN
  LET ActiveOccurrences ==
        {NextOccurrence(probe.configs[i], Today(probe.now)) :
           i \in {j \in DOMAIN probe.configs : probe.configs[j].is_active}} \ {NoDate}
  IN
  (probe.fn = "getNextCheckpointDate" /\ probe.done) =>
     IF ActiveOccurrences = {} THEN probe.out = NoTime
     ELSE /\ probe.out = parseISO(MinDate(ActiveOccurrences))
          /\ DateLE(Today(probe.now), Today(probe.out))

\* the second config of the list has the earlier occurrence and the first one is active
C22_Witness ==
  /\ probe.fn = "getNextCheckpointDate" /\ probe.done /\ Len(probe.configs) = 2
  /\ probe.configs[1].is_active /\ probe.configs[2].is_active
  /\ NextOccurrence(probe.configs[1], Today(probe.now)) # NoDate
  /\ probe.out = parseISO(NextOccurrence(probe.configs[2], Today(probe.now)))
  /\ probe.out # parseISO(NextOccurrence(probe.configs[1], Today(probe.now)))

\* C23: each partner's longest streak is the length of the longest run of
\* consecutive calendar days among the distinct dates of that partner's
\* published entries of the year; 0 when there are none.
C23_LongestStreak ==
  LET WritingDays(u) ==
        {DayNumber(probe.rows[i].entry_date) :
           i \in {j \in DOMAIN probe.rows : /\ probe.rows[j].author_id = u
                                            /\ ~probe.rows[j].is_draft
                                            /\ probe.rows[j].entry_date.y = probe.p_year}}
  IN LET LongestRun(days) ==
        MaxOf({0} \cup {n \in 1..Cardinality(days) :
                          \E start \in days : \A k \in 0..(n - 1) : start + k \in days})
  IN
  (probe.fn = "get_reveal_stats" /\ probe.evaluations > 0) =>
     /\ probe.out.partner_1_longest_streak = LongestRun(WritingDays(partner_1_id))
     /\ probe.out.partner_2_longest_streak = LongestRun(WritingDays(partner_2_id))

\* three entries of partner 1 on 28 and 29 February, two of them on one day:
\* a streak of two
C23_Witness ==
  /\ probe.fn = "get_reveal_stats" /\ probe.evaluations > 0
  /\ Len(probe.rows) = 3
  /\ \A i \in 1..3 : probe.rows[i].author_id = partner_1_id /\ ~probe.rows[i].is_draft
  /\ probe.rows[1].entry_date = probe.rows[2].entry_date
  /\ DayNumber(probe.rows[3].entry_date) = DayNumber(probe.rows[1].entry_date) + 1
  /\ probe.out.partner_1_longest_streak = 2

\* C24: the longest-entry statistic describes one entry: the reported author
\* and date are those of a single published entry whose word count is the
\* reported longest_entry_words, also when several entries tie.
C24_LongestEntryIsOneEntry ==
  LET PublishedOfYear ==
        {i \in DOMAIN probe.rows : ~probe.rows[i].is_draft /\ probe.rows[i].entry_date.y = probe.p_year}
  IN
  (probe.fn = "get_reveal_stats" /\ probe.evaluations > 0 /\ PublishedOfYear # {}) =>
     \E i \in PublishedOfYear :
        /\ probe.rows[i].word_count = probe.out.longest_entry_words
        /\ probe.rows[i].author_id = probe.out.longest_entry_author_id
        /\ probe.rows[i].entry_date = probe.out.longest_entry_date

\* C25: two evaluations of get_reveal_stats over the same entries return the
\* same record, the winners of the most active month, the top mood and the
\* favourite day of the week included.
C25_SameEntriesSameStats ==
  (probe.fn = "get_reveal_stats" /\ probe.evaluations = 2) => probe.out = probe.first

\* C26: whenever the gate is ReadyToOpen, the reveal screen's open action
\* invokes triggerReveal, also in the years after the first reveal, when
\* is_revealed is already true.
C26_OpenTriggersReveal ==
  [][\A s \in Sessions : (ReadyToOpen /\ handleOpen(s)) => BeginTrigger(s)]_vars

\* C27: a checkpoint_reveals row is only created on a date that is a
\* checkpoint day of the couple (an active config matches it) and on which
\* the annual gate is not ReadyToOpen.
C27_RowsOnCheckpointDaysOnly ==
  [][Inserted # {} => (CheckpointToday(today).is_checkpoint_day /\ ~ReadyToOpen)]_vars

\* C28: the server's gate and the client's gate agree: check-anniversary
\* accepts a trigger exactly when isAnniversaryReady is true for the same
\* anniversary_date, last_reveal_year and date.
C28_GatesAgree ==
  (probe.fn = "isRevealReady" /\ probe.done /\ "accepted" \in DOMAIN probe /\ probe.served) =>
     (probe.accepted <=> probe.out)

\* an anniversary of 29 February, asked on 1 March of a common year: both accept
C28_Witness ==
  /\ probe.fn = "isRevealReady" /\ probe.done /\ "accepted" \in DOMAIN probe /\ probe.served
  /\ couple.anniversary_date = [y |-> 2020, m |-> 2, d |-> 29]
  /\ probe.now.y = 2025 /\ probe.now.m = 3 /\ probe.now.d = 1
  /\ probe.accepted /\ probe.out

C30_ReachesExhaustion ==
  /\ [](response.op = "checkpoint" =>
          LET u == partner_1_id
              N == Cardinality(PartnerEntriesOf(u))
              Least(a, b) == IF a <= b THEN a ELSE b
          IN /\ response.error = NULL
             /\ \A e \in EntryIds : RowCount(e, u) <= 1
             /\ \A i \in 1..NumDates : RowsOn(u, DateAt(i)) <= 1
             /\ RevealedTo(u) \subseteq PartnerEntriesOf(u)
             /\ Cardinality(RevealedTo(u)) = Least(clock, N)
             /\ response.no_entries <=> clock > N
             /\ clock <= N => /\ ~response.already_revealed
                              /\ response.entry \in RevealedTo(u)
                              /\ \E r \in RevealsOn(u, today) : r.entry_id = response.entry)
  /\ <>(response.op = "checkpoint" /\ response.no_entries /\ AllDisclosed(partner_1_id))

\* two entries disclosed on the first two dates, none left on the third
C30_Witness ==
  /\ clock = 3 /\ response.op = "checkpoint" /\ response.no_entries
  /\ Cardinality(RevealedTo(partner_1_id)) = 2

====
